---- MODULE Spec2Model ----
(***************************************************************************)
(* A model of the Hacker News client in src/src/index.ts: the io-ts        *)
(* validators of the five item variants, decodeToPromise, formatItem,      *)
(* fetchItem, fetchTopStories and main.                                    *)
(*                                                                         *)
(* A JavaScript string is a sequence of one-character strings, so that     *)
(* .length and .slice are Len and SubSeq.  A JSON value below the top      *)
(* level is a flat record (JV); a response body is a record whose field o  *)
(* maps every property name to its JSON value, Undefined for a property    *)
(* the object does not have (what o[k] evaluates to in JavaScript).        *)
(***************************************************************************)
EXTENDS Integers, Sequences, FiniteSets, TLC

(* ------------------------------ bounds --------------------------------- *)
MaxBad == 2
MaxTextLen == 62
MaxIds == 3

(* --------------------------- JSON values -------------------------------- *)
Undefined == [t |-> "undefined", b |-> FALSE, n |-> 0, s |-> <<>>, a |-> <<>>]
Null == [t |-> "null", b |-> FALSE, n |-> 0, s |-> <<>>, a |-> <<>>]
Bool(b) == [t |-> "boolean", b |-> b, n |-> 0, s |-> <<>>, a |-> <<>>]
Num(n) == [t |-> "number", b |-> FALSE, n |-> n, s |-> <<>>, a |-> <<>>]
Str(s) == [t |-> "string", b |-> FALSE, n |-> 0, s |-> s, a |-> <<>>]
Arr(a) == [t |-> "array", b |-> FALSE, n |-> 0, s |-> <<>>, a |-> a]

\* the five tags, as JavaScript strings
STORY == <<"s", "t", "o", "r", "y">>
JOB == <<"j", "o", "b">>
POLL == <<"p", "o", "l", "l">>
POLLOPT == <<"p", "o", "l", "l", "o", "p", "t">>
COMMENT == <<"c", "o", "m", "m", "e", "n", "t">>

\* a property the schemas do not declare
ExtraField == "rank"

FieldNames ==
  {"type", "by", "id", "time", "dead", "deleted", "kids", "score", "title",
   "descendants", "text", "url", "parts", "parent", "poll", ExtraField}

\* a parsed response body: a plain object, or a value that is not one
Obj(o) == [k |-> "object", o |-> o]
NotObj(k) == [k |-> k, o |-> [f \in FieldNames |-> Undefined]]

(* ----------------------- io-ts runtime types ---------------------------- *)
TString == [k |-> "string", name |-> "string"]
TNumber == [k |-> "number", name |-> "number"]
TBoolean == [k |-> "boolean", name |-> "boolean"]
TUndefined == [k |-> "undefined", name |-> "undefined"]
TLiteral(v, name) == [k |-> "literal", name |-> name, lit |-> v]
TArray(T, name) == [k |-> "array", name |-> name, of |-> T]
TUnion(Ts, name) == [k |-> "union", name |-> name, types |-> Ts]

ID_V == TNumber

ArrayOfID == TArray(ID_V, "Array<number>")

\* optional without the union: the field is required
optionalRequired(T, name) == T

\* optional(type) is t.union([type, t.undefined], "?" + type.name)
optional(T, name) == TUnion(<<T, TUndefined>>, name)

Prop(key, T) == [key |-> key, type |-> T]

\* ItemCommonV with `by` declared optional
ItemCommonByOptional ==
  << Prop("by", TUnion(<<TString, TUndefined>>, "?string")),
     Prop("id", ID_V),
     Prop("time", TNumber),
     Prop("dead", TUnion(<<TBoolean, TUndefined>>, "?boolean")),
     Prop("deleted", TUnion(<<TBoolean, TUndefined>>, "?boolean")),
     Prop("kids", TUnion(<<ArrayOfID, TUndefined>>, "?Array<number>")) >>

ItemCommonV ==
  << Prop("by", TString),
     Prop("id", ID_V),
     Prop("time", TNumber),
     Prop("dead", optional(TBoolean, "?boolean")),
     Prop("deleted", optional(TBoolean, "?boolean")),
     Prop("kids", optional(ArrayOfID, "?Array<number>")) >>

TopLevelV ==
  << Prop("score", TNumber),
     Prop("title", TString) >>

StoryV ==
  << << Prop("type", TLiteral(STORY, "\"story\"")),
        Prop("descendants", TNumber),
        Prop("text", optional(TString, "?string")),
        Prop("url", optional(TString, "?string")) >>,
     ItemCommonV,
     TopLevelV >>

JobV ==
  << << Prop("type", TLiteral(JOB, "\"job\"")),
        Prop("text", optional(TString, "?string")),
        Prop("url", optional(TString, "?string")) >>,
     ItemCommonV,
     TopLevelV >>

PollV ==
  << << Prop("type", TLiteral(POLL, "\"poll\"")),
        Prop("descendants", TNumber),
        Prop("parts", ArrayOfID) >>,
     ItemCommonV,
     TopLevelV >>

CommentV ==
  << << Prop("type", TLiteral(COMMENT, "\"comment\"")),
        Prop("parent", ID_V),
        Prop("text", TString) >>,
     ItemCommonV >>

PollOptV ==
  << << Prop("type", TLiteral(POLLOPT, "\"pollopt\"")),
        Prop("poll", ID_V),
        Prop("score", TNumber),
        Prop("text", TString) >> >>

\* t.taggedUnion("type", [CommentV, JobV, PollV, PollOptV, StoryV], "Item")
ItemTag == "type"

ItemV == <<CommentV, JobV, PollV, PollOptV, StoryV>>

(* --------------------------- validation --------------------------------- *)
\* one io-ts ValidationError: the context's keys, the name of the type the
\* context ends in, and the kind of the rejected value
VError(T, v, c) == [path |-> c, expected |-> T.name, got |-> v.t]

success == [ok |-> TRUE, errors |-> <<>>]

failure(T, v, c) == [ok |-> FALSE, errors |-> <<VError(T, v, c)>>]

failures(es) == [ok |-> FALSE, errors |-> es]

RECURSIVE validate(_, _, _)
RECURSIVE validateUnion(_, _, _, _, _)
RECURSIVE validateElements(_, _, _, _)

\* UnionType.validate: the first member that accepts wins; otherwise the
\* errors of every member, each under the member's index
validateUnion(T, v, c, i, errors) ==
  IF i > Len(T.types) THEN failures(errors)
  ELSE LET r == validate(T.types[i], v, Append(c, ToString(i - 1)))
       IN IF r.ok THEN success
          ELSE validateUnion(T, v, c, i + 1, errors \o r.errors)

\* ArrayType.validate, the loop over the elements: errors are collected
validateElements(T, v, c, i) ==
  IF i > Len(v.a) THEN <<>>
  ELSE validate(T.of, v.a[i], Append(c, ToString(i - 1))).errors
         \o validateElements(T, v, c, i + 1)

validate(T, v, c) ==
  CASE T.k = "string" -> IF v.t = "string" THEN success ELSE failure(T, v, c)
    [] T.k = "number" -> IF v.t = "number" THEN success ELSE failure(T, v, c)
    [] T.k = "boolean" -> IF v.t = "boolean" THEN success ELSE failure(T, v, c)
    [] T.k = "undefined" -> IF v.t = "undefined" THEN success ELSE failure(T, v, c)
    [] T.k = "literal" ->
         IF v.t = "string" /\ v.s = T.lit THEN success ELSE failure(T, v, c)
    [] T.k = "array" ->
         IF v.t # "array" THEN failure(T, v, c)
         ELSE LET es == validateElements(T, v, c, 1)
              IN IF es = <<>> THEN success ELSE failures(es)
    [] T.k = "union" -> validateUnion(T, v, c, 1, <<>>)

RECURSIVE validateProps(_, _, _, _)
RECURSIVE validatePropsFirst(_, _, _, _)
RECURSIVE validateTypes(_, _, _, _, _)

\* the loop over the declared properties, stopping at the first failure
validatePropsFirst(props, o, c, i) ==
  IF i > Len(props) THEN <<>>
  ELSE LET es == validate(props[i].type, o[props[i].key],
                          Append(c, props[i].key)).errors
       IN IF es # <<>> THEN es ELSE validatePropsFirst(props, o, c, i + 1)

\* InterfaceType.validate, the loop over the declared properties: every
\* property is validated and the errors are collected; a property that is
\* not declared is never looked at
validateProps(props, o, c, i) ==
  IF i > Len(props) THEN <<>>
  ELSE validate(props[i].type, o[props[i].key], Append(c, props[i].key)).errors
         \o validateProps(props, o, c, i + 1)

\* InterfaceType.validate (t.type): the value must be a plain object
validateInterface(props, body, c, cname) ==
  IF body.k # "object" THEN failure([name |-> cname], [t |-> body.k], c)
  ELSE LET es == validateProps(props, body.o, c, 1)
       IN IF es = <<>> THEN success ELSE failures(es)

\* IntersectionType.validate, the loop over the member types: every member
\* is validated in the same context and the errors are collected
validateTypes(types, body, c, cname, i) ==
  IF i > Len(types) THEN <<>>
  ELSE validateInterface(types[i], body, c, cname).errors
         \o validateTypes(types, body, c, cname, i + 1)

validateIntersection(types, body, c, cname) ==
  LET es == validateTypes(types, body, c, cname, 1)
  IN IF es = <<>> THEN success ELSE failures(es)

\* getTagValue: the literal a variant declares for the tag property
TagValueOf(V) ==
  LET ps == {<<i, j>> \in (1..Len(V)) \X (1..4) :
                j <= Len(V[i]) /\ V[i][j].key = ItemTag}
      p == CHOOSE q \in ps : TRUE
  IN V[p[1]][p[2]].type.lit

VariantNames == <<"Comment", "Job", "Poll", "PollOpt", "Story">>

\* the TagValue type of the tagged union: a string that is one of the tags
TagValue ==
  [name |-> "\"comment\" | \"job\" | \"poll\" | \"pollopt\" | \"story\""]

isTagValue(v) ==
  v.t = "string" /\ \E i \in 1..Len(ItemV) : TagValueOf(ItemV[i]) = v.s

getIndex(s) == CHOOSE i \in 1..Len(ItemV) : TagValueOf(ItemV[i]) = s

RECURSIVE scanVariants(_, _)
scanVariants(body, i) ==
  IF i > Len(ItemV) THEN <<>>
  ELSE validateIntersection(ItemV[i], body, <<ToString(i - 1)>>,
                            VariantNames[i]).errors
         \o scanVariants(body, i + 1)

\* a union that tries every variant in turn instead of reading the tag
validateItemScan(body) ==
  IF body.k # "object" THEN failure([name |-> "Item"], [t |-> body.k], <<>>)
  ELSE IF \E i \in 1..Len(ItemV) :
            validateIntersection(ItemV[i], body, <<>>, VariantNames[i]).ok
    THEN success
    ELSE failures(scanVariants(body, 1))

\* TaggedUnionType.validate: the value must be a plain object, then its tag
\* must be a tag value, then the one variant the tag selects validates it
validateItem(body) ==
  IF body.k # "object" THEN failure([name |-> "Item"], [t |-> body.k], <<>>)
  ELSE IF ~isTagValue(body.o[ItemTag])
    THEN failure(TagValue, body.o[ItemTag], <<ItemTag>>)
    ELSE LET i == getIndex(body.o[ItemTag].s)
         IN validateIntersection(ItemV[i], body, <<ToString(i - 1)>>,
                                 VariantNames[i])

\* t.array(ID_V).validate on the body of the top-stories endpoint
validateIds(json) == validate(ArrayOfID, json, <<>>)

(* ------------------------- decodeToPromise ------------------------------ *)
\* io-ts-reporters: one line per error,
\* "Expecting <type> at <path> but instead got: <value>."
reporter(errors) ==
  [i \in 1..Len(errors) |->
     [expecting |-> errors[i].expected, at |-> errors[i].path,
      got |-> errors[i].got]]

Rejected(message) == [state |-> "rejected", message |-> message]

Resolved(value) == [state |-> "resolved", value |-> value]

\* a decode that strips the properties the schema does not declare
decodeToPromiseStrip(result, input) ==
  IF result.ok
    THEN Resolved(IF "o" \in DOMAIN input
                    THEN [input EXCEPT !.o[ExtraField] = Undefined]
                    ELSE input)
  ELSE Rejected([name |-> "Error", lines |-> reporter(result.errors)])

\* result is validator.decode(input); none of the validators above changes
\* a value it accepts, so the decoded value is the input itself
decodeToPromise(result, input) ==
  IF result.ok THEN Resolved(input)
  ELSE Rejected([name |-> "Error", lines |-> reporter(result.errors)])

decodeItem(body) == decodeToPromise(validateItem(body), body)

(* ----------------------------- formatItem ------------------------------- *)
ExcerptLen == 60

RECURSIVE Decimal(_)
\* Number.prototype.toString of a natural number
Decimal(n) ==
  IF n < 10 THEN <<ToString(n)>>
  ELSE Append(Decimal(n \div 10), ToString(n % 10))

\* a value interpolated into a template literal
Interpolate(v) ==
  CASE v.t = "string" -> v.s
    [] v.t = "number" -> Decimal(v.n)
    [] v.t = "undefined" -> <<"u", "n", "d", "e", "f", "i", "n", "e", "d">>
    [] v.t = "null" -> <<"n", "u", "l", "l">>
    [] v.t = "boolean" ->
         IF v.b THEN <<"t", "r", "u", "e">> ELSE <<"f", "a", "l", "s", "e">>

\* String.prototype.slice(0, n)
Slice0(s, n) == SubSeq(s, 1, IF n < Len(s) THEN n ELSE Len(s))

\* the excerpt with >= for >
ExcerptOffByOne(text) ==
  IF Len(text) >= ExcerptLen
    THEN Slice0(text, ExcerptLen) \o <<".", ".", ".">>
    ELSE text

Excerpt(text) ==
  IF Len(text) > ExcerptLen
    THEN Slice0(text, ExcerptLen) \o <<".", ".", ".">>
    ELSE text

Returned(s) == [defined |-> TRUE, s |-> s]

\* falling out of the switch returns undefined
NoReturn == [defined |-> FALSE, s |-> <<>>]

\* formatItem without the case for "pollopt"
formatItemNoPollOpt(item) ==
  LET o == item.o
      tag == o["type"].s
  IN CASE tag = STORY ->
            Returned(<<"\"">> \o Interpolate(o["title"])
                     \o <<"\"", " ", "s", "u", "b", "m", "i", "t", "t", "e",
                          "d", " ", "b", "y", " ">>
                     \o Interpolate(o["by"]))
       [] tag = JOB ->
            Returned(<<"j", "o", "b", " ", "p", "o", "s", "t", "i", "n", "g",
                       ":", " ">> \o Interpolate(o["title"]))
       [] tag = POLL ->
            LET numOpts == Len(o["parts"].a)
            IN Returned(<<"p", "o", "l", "l", ":", " ", "\"">>
                        \o Interpolate(o["title"])
                        \o <<"\"", " ", "-", " ", "c", "h", "o", "o", "s", "e",
                             " ", "o", "n", "e", " ", "o", "f", " ">>
                        \o Decimal(numOpts)
                        \o <<" ", "o", "p", "t", "i", "o", "n", "s">>)
       [] tag = COMMENT ->
            Returned(Interpolate(o["by"])
                     \o <<" ", "c", "o", "m", "m", "e", "n", "t", "e", "d",
                          ":", " ">>
                     \o Excerpt(o["text"].s))
       [] OTHER -> NoReturn

formatItem(item) ==
  LET o == item.o
      tag == o["type"].s
  IN CASE tag = STORY ->
            Returned(<<"\"">> \o Interpolate(o["title"])
                     \o <<"\"", " ", "s", "u", "b", "m", "i", "t", "t", "e",
                          "d", " ", "b", "y", " ">>
                     \o Interpolate(o["by"]))
       [] tag = JOB ->
            Returned(<<"j", "o", "b", " ", "p", "o", "s", "t", "i", "n", "g",
                       ":", " ">> \o Interpolate(o["title"]))
       [] tag = POLL ->
            LET numOpts == Len(o["parts"].a)
            IN Returned(<<"p", "o", "l", "l", ":", " ", "\"">>
                        \o Interpolate(o["title"])
                        \o <<"\"", " ", "-", " ", "c", "h", "o", "o", "s", "e",
                             " ", "o", "n", "e", " ", "o", "f", " ">>
                        \o Decimal(numOpts)
                        \o <<" ", "o", "p", "t", "i", "o", "n", "s">>)
       [] tag = POLLOPT ->
            Returned(<<"p", "o", "l", "l", " ", "o", "p", "t", "i", "o", "n",
                       ":", " ">> \o Interpolate(o["text"]))
       [] tag = COMMENT ->
            Returned(Interpolate(o["by"])
                     \o <<" ", "c", "o", "m", "m", "e", "n", "t", "e", "d",
                          ":", " ">>
                     \o Excerpt(o["text"].s))
       [] OTHER -> NoReturn

(* ------------------------------ state ----------------------------------- *)
VARIABLES
  gen,       \* how the body under decode was built (see Build)
  input,     \* the parsed body handed to decodeToPromise(ItemV, _)
  decoded,   \* the promise decodeToPromise returned
  line,      \* what formatItem returned for the decoded item
  dpc,       \* "input", "decoded", "formatted"; "idle" outside SpecDecode
  pc,        \* where main is: "fetchList", "listJson", "items", "done",
             \* "exited"; "idle" outside Spec
  count,     \* the argument of fetchTopStories
  top,       \* the promise of the decoded ID list
  fetches,   \* one record per fetchItem call, in the order of the calls
  all,       \* the promise Promise.all returned
  stdout,    \* what console.log wrote, one entry per call
  stderr,    \* what console.error wrote, one entry per call
  exitCode   \* the exit status of the process once it has exited

decodeVars == <<gen, input, decoded, line, dpc>>

mainVars == <<pc, count, top, fetches, all, stdout, stderr, exitCode>>

vars == <<decodeVars, mainVars>>

NoPromise == [state |-> "none"]

Pending == [state |-> "pending"]

NotExited == -1

(* ----------------------- bodies under decode ---------------------------- *)
Modes == {"missing", "null", "wrong", "wrong2"}

DeclaredProps(V) ==
  {V[i][j] : <<i, j>> \in {q \in (1..Len(V)) \X (1..6) : q[2] <= Len(V[q[1]])}}

Declared(V) == {p.key : p \in DeclaredProps(V)}

TypeOfField(V, f) == (CHOOSE p \in DeclaredProps(V) : p.key = f).type

\* text of a given length whose characters differ from place to place
Text(len) == [i \in 1..len |-> <<"a", "b", "c">>[(i % 3) + 1]]

Min(a, b) == IF a < b THEN a ELSE b

RECURSIVE BaseType(_)
BaseType(T) == IF T.k = "union" THEN BaseType(T.types[1]) ELSE T

\* a value the declared type of field f accepts
ValidValue(f, T, size) ==
  LET B == BaseType(T)
  IN CASE B.k = "literal" -> Str(B.lit)
       [] B.k = "string" ->
            IF f = "text" THEN Str(Text(size)) ELSE Str(Text(Min(size, 2)))
       [] B.k = "number" -> Num(1)
       [] B.k = "boolean" -> Bool(TRUE)
       [] B.k = "array" ->
            IF f = "parts" THEN Arr([i \in 1..size |-> Num(i)])
            ELSE Arr(<<Num(1), Num(2)>>)

\* a value the declared type of field f rejects
InvalidValue(f, T, mode) ==
  LET B == BaseType(T)
  IN CASE mode = "missing" -> Undefined
       [] mode = "null" -> Null
       [] mode = "wrong" ->
            IF B.k \in {"string", "literal"} THEN Num(7) ELSE Str(<<"7">>)
       [] mode = "wrong2" ->
            CASE B.k = "literal" -> Str(<<"x">>)
              [] B.k = "array" -> Arr(<<Num(1), Str(<<"x">>)>>)
              [] B.k = "boolean" -> Num(1)
              [] OTHER -> Bool(TRUE)

\* the body a generator describes: an object valid for the variant, with
\* the fields of DOMAIN g.bad replaced, and possibly an undeclared field
Build(g) ==
  LET V == ItemV[g.tag]
  IN Obj([f \in FieldNames |->
            IF f \in DOMAIN g.bad
              THEN InvalidValue(f, TypeOfField(V, f), g.bad[f])
            ELSE IF f \in Declared(V)
              THEN ValidValue(f, TypeOfField(V, f), g.size)
            ELSE IF f = ExtraField /\ g.extra THEN Num(42)
            ELSE Undefined])

\* a generator: the variant, the replaced fields and how each is replaced,
\* whether an undeclared field is added, and the length of text and parts
Gen(i, m, x, n) == [tag |-> i, bad |-> m, extra |-> x, size |-> n]

\* bodies with up to MaxBad replaced fields, each replaced in its own way
FewBadGen(g) ==
  \E i \in 1..Len(ItemV) :
    \E S \in SUBSET Declared(ItemV[i]) :
      /\ Cardinality(S) <= MaxBad
      /\ \E m \in [S -> Modes] : \E x \in BOOLEAN : g = Gen(i, m, x, 2)

\* bodies with any set of replaced fields, all replaced in the same way
ManyBadGen(g) ==
  \E i \in 1..Len(ItemV) :
    \E S \in SUBSET (Declared(ItemV[i]) \ {ItemTag}) :
      \E mode \in Modes : g = Gen(i, [f \in S |-> mode], FALSE, 2)

\* valid bodies whose strings and parts have every length up to MaxTextLen
SizedGen(g) ==
  \E i \in 1..Len(ItemV) : \E n \in 0..MaxTextLen : g = Gen(i, <<>>, FALSE, n)

(* --------------------- decode and format one body ----------------------- *)
InitDecode ==
  /\ \/ FewBadGen(gen)
     \/ ManyBadGen(gen)
     \/ SizedGen(gen)
  /\ input = Build(gen)
  /\ decoded = NoPromise
  /\ line = NoReturn
  /\ dpc = "input"
  /\ pc = "idle"
  /\ count = 0
  /\ top = NoPromise
  /\ fetches = <<>>
  /\ all = NoPromise
  /\ stdout = <<>>
  /\ stderr = <<>>
  /\ exitCode = NotExited

\* fetchItem, after res.json() resolved with the body
Decode ==
  /\ dpc = "input"
  /\ decoded' = decodeItem(input)
  /\ dpc' = "decoded"
  /\ UNCHANGED <<gen, input, line, mainVars>>

\* main's loop body on one decoded item
Format ==
  /\ dpc = "decoded"
  /\ decoded.state = "resolved"
  /\ line' = formatItem(decoded.value)
  /\ dpc' = "formatted"
  /\ UNCHANGED <<gen, input, decoded, mainVars>>

NextDecode == Decode \/ Format

SpecDecode == InitDecode /\ [][NextDecode]_vars

(* ---------------- fetchItem, fetchTopStories and main ------------------- *)
\* main calls fetchTopStories(15)
MainCount == 15

Counts == {0, 1, 2, MainCount}

\* node-fetch rejects: fetch() on a network failure, res.json() on a body
\* that is not JSON.  The message is one line, kept in the shape of a
\* reporter line.
TransportError(reason) ==
  [name |-> "FetchError",
   lines |-> <<[expecting |-> "", at |-> <<>>, got |-> reason]>>]

\* bodies of the top-stories endpoint: lists of up to MaxIds distinct IDs,
\* ascending and descending, a list with a string in it, and null
TopBodies ==
  {Arr([i \in 1..n |-> Num(i)]) : n \in 0..MaxIds}
    \cup {Arr([i \in 1..n |-> Num(n + 1 - i)]) : n \in 0..MaxIds}
    \cup {Arr(<<Num(1), Str(<<"x">>)>>), Null}

\* bodies of the item endpoint for an ID: a story, a comment, a story
\* without title, and null (what the API serves for an unknown ID)
ItemBodies(id) ==
  {[Build(g) EXCEPT !.o["id"] = Num(id)] :
     g \in {Gen(5, <<>>, FALSE, 2), Gen(1, <<>>, TRUE, 61),
            Gen(5, [f \in {"title"} |-> "missing"], FALSE, 2)}}
    \cup {NotObj("null")}

\* Array.prototype.slice(0, count), count >= 0
SliceIds(a, n) == SubSeq(a, 1, Min(n, Len(a)))

\* the promise of one fetchItem call: st is "fetch" while fetch() is
\* pending, "json" while res.json() is, "settled" after; at is the call's
\* place in the order of completion (0 before)
FetchCall(id) ==
  [id |-> id, st |-> "fetch", body |-> NotObj("undefined"),
   out |-> Pending, at |-> 0]

NumSettled(ps) == Cardinality({i \in 1..Len(ps) : ps[i].st = "settled"})

Settle(ps, i, body, out) ==
  [ps EXCEPT ![i] = [id |-> ps[i].id, st |-> "settled", body |-> body,
                     out |-> out, at |-> NumSettled(ps) + 1]]

\* a combinator that resolves with the values in the order of completion
PromiseAllByCompletion(prev, ps) ==
  IF prev.state \in {"resolved", "rejected"} THEN prev
  ELSE IF \E i \in 1..Len(ps) : ps[i].out.state = "rejected"
    THEN Rejected((CHOOSE q \in {ps[i] : i \in 1..Len(ps)} :
                     q.out.state = "rejected").out.message)
  ELSE IF \A i \in 1..Len(ps) : ps[i].out.state = "resolved"
    THEN Resolved([k \in 1..Len(ps) |->
                     ps[CHOOSE i \in 1..Len(ps) : ps[i].at = k].out.value])
  ELSE Pending

\* a combinator that waits for every promise and drops the rejected ones
PromiseAllKeepGoing(prev, ps) ==
  IF prev.state \in {"resolved", "rejected"} THEN prev
  ELSE IF \A i \in 1..Len(ps) : ps[i].st = "settled"
    THEN LET kept == SelectSeq(ps, LAMBDA q : q.out.state = "resolved")
         IN Resolved([i \in 1..Len(kept) |-> kept[i].out.value])
  ELSE Pending

\* Promise.all over the fetchItem promises ps, prev its state before: it
\* rejects with the first rejection, resolves once every promise has, with
\* the values in the order of ps, and settles once
PromiseAll(prev, ps) ==
  IF prev.state \in {"resolved", "rejected"} THEN prev
  ELSE IF \E i \in 1..Len(ps) : ps[i].out.state = "rejected"
    THEN LET first == CHOOSE i \in 1..Len(ps) :
                        /\ ps[i].out.state = "rejected"
                        /\ \A j \in 1..Len(ps) :
                             ps[j].out.state = "rejected" => ps[i].at <= ps[j].at
         IN Rejected(ps[first].out.message)
  ELSE IF \A i \in 1..Len(ps) : ps[i].out.state = "resolved"
    THEN Resolved([i \in 1..Len(ps) |-> ps[i].out.value])
  ELSE Pending

\* what console.log writes for formatItem(story) + "\n"
LogLine(r) ==
  (IF r.defined THEN r.s
   ELSE <<"u", "n", "d", "e", "f", "i", "n", "e", "d">>) \o <<"\n">>

\* main's for loop over the resolved stories
PrintStories(stories) == [i \in 1..Len(stories) |-> LogLine(formatItem(stories[i]))]

\* main, resumed when the promise p it awaits has settled: the loop when p
\* resolved, the catch block when p rejected
MainResumes(p) ==
  IF p.state = "resolved"
    THEN /\ stdout' = stdout \o PrintStories(p.value)
         /\ stderr' = stderr
         /\ pc' = "done"
  ELSE IF p.state = "rejected"
    THEN /\ stderr' = Append(stderr, p.message.lines)
         /\ stdout' = stdout
         /\ pc' = "done"
  ELSE UNCHANGED <<stdout, stderr, pc>>

Init ==
  /\ pc = "fetchList"
  /\ count \in Counts
  /\ top = Pending
  /\ fetches = <<>>
  /\ all = NoPromise
  /\ stdout = <<>>
  /\ stderr = <<>>
  /\ exitCode = NotExited
  /\ gen = Gen(1, <<>>, FALSE, 0)
  /\ input = NotObj("undefined")
  /\ decoded = NoPromise
  /\ line = NoReturn
  /\ dpc = "idle"

\* fetch() of the top-stories endpoint rejects
ListFetchFails ==
  /\ pc = "fetchList"
  /\ top' = Rejected(TransportError("network"))
  /\ MainResumes(top')
  /\ UNCHANGED <<count, fetches, all, exitCode, decodeVars>>

\* fetch() of the top-stories endpoint resolves with a response
ListFetchResponds ==
  /\ pc = "fetchList"
  /\ pc' = "listJson"
  /\ UNCHANGED <<count, top, fetches, all, stdout, stderr, exitCode, decodeVars>>

\* res.json() of the top-stories response rejects
ListJsonFails ==
  /\ pc = "listJson"
  /\ top' = Rejected(TransportError("invalid json"))
  /\ MainResumes(top')
  /\ UNCHANGED <<count, fetches, all, exitCode, decodeVars>>

\* res.json() resolves: the list is decoded; if it is one, fetchItem is
\* called for each of the first count IDs and Promise.all awaits them
ListJsonResolves ==
  /\ pc = "listJson"
  /\ \E json \in TopBodies :
       /\ top' = decodeToPromise(validateIds(json), json)
       /\ IF top'.state = "rejected"
            THEN /\ MainResumes(top')
                 /\ UNCHANGED <<fetches, all>>
            ELSE LET called == SliceIds(top'.value.a, count)
                 IN /\ fetches' = [i \in 1..Len(called) |-> FetchCall(called[i].n)]
                    /\ all' = PromiseAll(Pending, fetches')
                    /\ IF all'.state = "pending"
                         THEN /\ pc' = "items"
                              /\ UNCHANGED <<stdout, stderr>>
                         ELSE MainResumes(all')
  /\ UNCHANGED <<count, exitCode, decodeVars>>

\* one fetchItem promise settles with out; Promise.all and main follow in
\* the same turn of the event loop
ItemSettles(i, body, out) ==
  /\ fetches' = Settle(fetches, i, body, out)
  /\ all' = PromiseAll(all, fetches')
  /\ IF pc = "items" THEN MainResumes(all')
     ELSE UNCHANGED <<stdout, stderr, pc>>
  /\ UNCHANGED <<count, top, exitCode, decodeVars>>

\* fetch() of an item rejects
ItemFetchFails ==
  \E i \in 1..Len(fetches) :
    /\ fetches[i].st = "fetch"
    /\ ItemSettles(i, NotObj("undefined"), Rejected(TransportError("network")))

\* fetch() of an item resolves with a response
ItemFetchResponds ==
  \E i \in 1..Len(fetches) :
    /\ fetches[i].st = "fetch"
    /\ fetches' = [fetches EXCEPT ![i].st = "json"]
    /\ UNCHANGED <<pc, count, top, all, stdout, stderr, exitCode, decodeVars>>

\* res.json() of an item's response rejects
ItemJsonFails ==
  \E i \in 1..Len(fetches) :
    /\ fetches[i].st = "json"
    /\ ItemSettles(i, NotObj("undefined"),
                   Rejected(TransportError("invalid json")))

\* res.json() of an item's response resolves and the body is decoded
ItemJsonResolves ==
  \E i \in 1..Len(fetches) :
    /\ fetches[i].st = "json"
    /\ \E body \in ItemBodies(fetches[i].id) :
         ItemSettles(i, body, decodeItem(body))

\* main has returned and no request is pending: the process exits, with
\* the status of a process that never set one
Exit ==
  /\ pc = "done"
  /\ \A i \in 1..Len(fetches) : fetches[i].st = "settled"
  /\ pc' = "exited"
  /\ exitCode' = 0
  /\ UNCHANGED <<count, top, fetches, all, stdout, stderr, decodeVars>>

Next ==
  \/ ListFetchFails
  \/ ListFetchResponds
  \/ ListJsonFails
  \/ ListJsonResolves
  \/ ItemFetchFails
  \/ ItemFetchResponds
  \/ ItemJsonFails
  \/ ItemJsonResolves
  \/ Exit

Spec == Init /\ [][Next]_vars

(* ------------------- properties of decode and format -------------------- *)
Variant == ItemV[gen.tag]

Settled == dpc # "input"

\* the fields the data model marks optional, per variant of ItemV
OptionalFields ==
  CASE gen.tag = 1 -> {"dead", "deleted", "kids"}
    [] gen.tag = 2 -> {"dead", "deleted", "kids", "text", "url"}
    [] gen.tag = 3 -> {"dead", "deleted", "kids"}
    [] gen.tag = 4 -> {}
    [] gen.tag = 5 -> {"dead", "deleted", "kids", "text", "url"}

\* the replaced fields that are missing though required, or ill-typed:
\* omitting an optional field is no failure
FailSet ==
  {f \in DOMAIN gen.bad : ~(gen.bad[f] = "missing" /\ f \in OptionalFields)}

\* the fields the rejection's message names in the path of some line
NamedFields ==
  IF decoded.state # "rejected" THEN {}
  ELSE {decoded.message.lines[i].at[j] :
          <<i, j>> \in {q \in (1..Len(decoded.message.lines)) \X (1..4) :
                          q[2] <= Len(decoded.message.lines[q[1]].at)}}

\* C4: a body whose `type` is absent, not a string, or an unknown string is
\* rejected with exactly one line, which names `type` and the accepted tags;
\* the line is determined by the `type` value alone, whatever the other
\* fields hold.
C4_TagErrorOnly ==
  (Settled /\ ItemTag \in DOMAIN gen.bad) =>
    /\ decoded.state = "rejected"
    /\ decoded.message.lines =
         << [expecting |-> "\"comment\" | \"job\" | \"poll\" | \"pollopt\" | \"story\"",
             at |-> <<"type">>,
             got |-> input.o["type"].t] >>

C4_Witness ==
  /\ Settled
  /\ ItemTag \in DOMAIN gen.bad
  /\ gen.bad[ItemTag] = "wrong2"
  /\ "by" \in FailSet
  /\ decoded.state = "rejected"

C6_ExtraFieldDropped ==
  (Settled /\ gen.extra /\ FailSet = {}) =>
    /\ decoded.state = "resolved"
    /\ decoded.value.o[ExtraField] = Undefined

\* C6 amended: a valid body carrying an undeclared field resolves, and the
\* decoded value is the body itself: the undeclared field is still on it.
C6_ExtraFieldKept ==
  (Settled /\ gen.extra /\ FailSet = {}) =>
    /\ decoded.state = "resolved"
    /\ decoded.value = input
    /\ decoded.value.o[ExtraField] = Num(42)

C6_Witness ==
  /\ Settled
  /\ gen.extra
  /\ FailSet = {}
  /\ input.o[ExtraField] # Undefined
  /\ decoded.state = "resolved"

\* the generator of the same body with field f present and valid
WithValid(f) == [gen EXCEPT !.bad = [g \in DOMAIN gen.bad \ {f} |-> gen.bad[g]]]

\* C7: for every optional field f of an otherwise valid body: with f omitted
\* or f present with a value of its base type the decode resolves, with the
\* other fields as in the body where f is present; with f present and of
\* another type, or null, it is rejected.
C7_Optional ==
  Settled =>
    \A f \in OptionalFields :
      (FailSet \subseteq {f}) =>
        IF f \in FailSet THEN decoded.state = "rejected"
        ELSE /\ decoded.state = "resolved"
             /\ decoded.value.o[f] = input.o[f]
             /\ \A g \in FieldNames \ {f} :
                  decoded.value.o[g] = Build(WithValid(f)).o[g]

C7_Witness ==
  /\ Settled
  /\ DOMAIN gen.bad = {"kids", "url"}
  /\ gen.bad["kids"] = "missing"
  /\ gen.bad["url"] = "null"
  /\ decoded.state = "rejected"

Chars(o, f) == o[f].s

TableExcerpt(text) ==
  IF Len(text) <= 60 THEN text
  ELSE [i \in 1..63 |-> IF i <= 60 THEN text[i] ELSE "."]

\* the format table of the five variants
TableLine(o) ==
  CASE Chars(o, "type") = STORY ->
         <<"\"">> \o Chars(o, "title") \o <<"\"">>
           \o <<" ", "s", "u", "b", "m", "i", "t", "t", "e", "d", " ", "b", "y", " ">>
           \o Chars(o, "by")
    [] Chars(o, "type") = JOB ->
         <<"j", "o", "b", " ", "p", "o", "s", "t", "i", "n", "g", ":", " ">>
           \o Chars(o, "title")
    [] Chars(o, "type") = POLL ->
         <<"p", "o", "l", "l", ":", " ">>
           \o <<"\"">> \o Chars(o, "title") \o <<"\"">>
           \o <<" ", "-", " ", "c", "h", "o", "o", "s", "e", " ", "o", "n", "e", " ", "o", "f", " ">>
           \o (IF Len(o["parts"].a) < 10 THEN <<ToString(Len(o["parts"].a))>>
               ELSE <<ToString(Len(o["parts"].a) \div 10),
                      ToString(Len(o["parts"].a) % 10)>>)
           \o <<" ", "o", "p", "t", "i", "o", "n", "s">>
    [] Chars(o, "type") = POLLOPT ->
         <<"p", "o", "l", "l", " ", "o", "p", "t", "i", "o", "n", ":", " ">>
           \o Chars(o, "text")
    [] Chars(o, "type") = COMMENT ->
         Chars(o, "by")
           \o <<" ", "c", "o", "m", "m", "e", "n", "t", "e", "d", ":", " ">>
           \o TableExcerpt(Chars(o, "text"))

\* C8: formatItem returns a defined string for every decoded item, and the
\* string is the table's line for the item's own tag.
C8_FormatTotal ==
  /\ (dpc = "decoded" /\ decoded.state = "resolved") => ENABLED Format
  /\ dpc = "formatted" =>
       /\ line.defined
       /\ line.s = TableLine(decoded.value.o)

C8_Witness ==
  /\ dpc = "formatted"
  /\ Chars(decoded.value.o, "type") = POLL
  /\ Len(decoded.value.o["parts"].a) = 12
  /\ line.defined

\* what follows "{by} commented: " in a comment's line
RenderedExcerpt ==
  SubSeq(line.s, Len(Chars(decoded.value.o, "by")) + 13, Len(line.s))

\* C9: a comment's excerpt is its text when the text has at most 60
\* characters, and the first 60 characters followed by "..." when it has 61
\* or more; it never has more than 63 characters.
C9_Excerpt ==
  (dpc = "formatted" /\ Chars(decoded.value.o, "type") = COMMENT) =>
    LET text == Chars(decoded.value.o, "text")
    IN /\ Len(text) <= 60 => RenderedExcerpt = text
       /\ Len(text) >= 61 =>
            RenderedExcerpt = SubSeq(text, 1, 60) \o <<".", ".", ".">>
       /\ Len(RenderedExcerpt) <= 63

C9_Witness ==
  /\ dpc = "formatted"
  /\ Chars(decoded.value.o, "type") = COMMENT
  /\ Len(Chars(decoded.value.o, "text")) = 60
  /\ RenderedExcerpt = Chars(decoded.value.o, "text")

\* C10 as stated: a decoded story, job, poll or comment has a non-empty
\* `by`, and a decoded story, job or poll a non-empty `title`.
C10_NonEmpty ==
  (Settled /\ decoded.state = "resolved") =>
    /\ "by" \in Declared(Variant) => Chars(decoded.value.o, "by") # <<>>
    /\ "title" \in Declared(Variant) => Chars(decoded.value.o, "title") # <<>>

\* C10 amended: a decoded story, job, poll or comment has a `by` that is a
\* string, and a decoded story, job or poll a `title` that is a string; the
\* empty string is a string: a body otherwise valid whose `by` and `title`
\* are empty is decoded to an Item.
C10_Strings ==
  /\ (Settled /\ decoded.state = "resolved") =>
       /\ "by" \in Declared(Variant) => decoded.value.o["by"].t = "string"
       /\ "title" \in Declared(Variant) => decoded.value.o["title"].t = "string"
  /\ (Settled /\ FailSet = {} /\ gen.size = 0) =>
       /\ decoded.state = "resolved"
       /\ "by" \in Declared(Variant) => decoded.value.o["by"] = Str(<<>>)
       /\ "title" \in Declared(Variant) => decoded.value.o["title"] = Str(<<>>)

C10_Witness ==
  /\ Settled
  /\ decoded.state = "resolved"
  /\ "title" \in Declared(Variant)
  /\ input.o["by"] = Str(<<>>)
  /\ input.o["title"] = Str(<<>>)

(* ---------------- properties of fetchTopStories and main ----------------- *)
\* the ID list the top-stories endpoint returned, once decoded
Ids == IF top.state = "resolved" THEN top.value.a ELSE <<>>

\* some fetch or decode of the run has failed
Failed ==
  \/ top.state = "rejected"
  \/ \E i \in 1..Len(fetches) : fetches[i].out.state = "rejected"

\* C1: when fetchTopStories(count) resolves, its result has one item per ID
\* of the first count IDs of the list, and the item at position i is the
\* item decoded from the body fetched for the i-th ID, whatever the order
\* in which the fetches completed.
C1_OrderPreserved ==
  all.state = "resolved" =>
    /\ Len(all.value) = Min(count, Len(Ids))
    /\ \A i \in 1..Len(all.value) :
         /\ fetches[i].id = Ids[i].n
         /\ fetches[i].out.state = "resolved"
         /\ all.value[i] = fetches[i].body
         /\ all.value[i].o["id"] = Ids[i]

C1_Witness ==
  /\ all.state = "resolved"
  /\ Len(all.value) = 2
  /\ Len(Ids) = 3
  /\ Ids[1] # Ids[2]
  /\ fetches[2].at < fetches[1].at
  /\ all.value[1].o["type"] # all.value[2].o["type"]

\* C2: once the fetch or decode of the ID list or of any item has failed,
\* nothing is on standard output: no line is printed for any item, also
\* not for the items that resolved before or after the failing one.
C2_NoOutputOnFailure == Failed => stdout = <<>>

C2_Witness ==
  /\ pc = "exited"
  /\ Len(fetches) = 3
  /\ fetches[2].out.state = "rejected"
  /\ fetches[1].out.state = "resolved"
  /\ fetches[3].out.state = "resolved"
  /\ fetches[3].at < fetches[2].at
  /\ fetches[2].at < fetches[1].at
  /\ stdout = <<>>

\* C3: after a failure main has written the error's message to standard
\* error and the process has exited with a non-zero status.
C3_ErrorExitsNonZero ==
  (pc = "exited" /\ Failed) =>
    /\ Len(stderr) = 1
    /\ exitCode # 0

====
